---- MODULE Spec2Model ----
(***************************************************************************)
(* RadInterp: radial_grid, radial_interp and create_mappable.              *)
(*                                                                         *)
(* Kilometres and degrees are "int or float" in the source.  They are kept *)
(* here as fixed-point integers counting 1/Den of a unit, so the value 0.5 *)
(* is the integer 1 and the value 360 is 360 * Den.  Halves are exact in   *)
(* binary floating point, so numpy computes on them what is computed here. *)
(***************************************************************************)
EXTENDS Integers, Sequences, FiniteSets, TLC

\* Denominator of the fixed-point representation of the float parameters.
Den == 2

\* Bounds of the inputs that are enumerated (in 1/Den km).
MaxStart == 2
MaxStep == 3
MaxEnd == 4

\* np.arange(0, 361, ...): the exclusive stop of the azimuth range, in degrees.
DegreeStop == 361
\* assert 0 < degree_resolution <= 90
MaxDegreeResolution == 90

StartRadii == {-1} \cup (0..MaxStart)
RadiusStepsIn == {-1} \cup (0..MaxStep)
EndRadii == 0..MaxEnd
\* 0, 0.5, 1, 7, 45, 90 and 90.5 degrees.
DegreeResolutions == {0, 1, 2, 14, 90, 180, 181}
\* 0, 45, 50, 90 and 90.5 degrees: the grids radial_interp is stepped through.
CoarseResolutions == {0, 90, 100, 180, 181}

VARIABLES
  pc,                 \* position in the pipeline
  err,                \* exception raised, "" when none
  start_radius, radius_step, end_radius, degree_resolution,  \* radial_grid's arguments
  radius_steps, degree_steps,                                 \* radial_grid's result
  interp_vals,        \* the sampled values
  array, x, y,        \* create_mappable's result
  ri_radius,          \* radial_interp's radius_steps argument
  field_ndim, center_size, return_coordinates,               \* radial_interp's arguments
  i, j,               \* loop positions of radial_interp (1-based)
  interp_lats, interp_lons,
  destCalls,          \* calls of transect.destination so far
  sampleCalls,        \* calls of si.interpn so far
  sampler_query,      \* the (lons, lats) handed to si.interpn
  ret                 \* radial_interp's return value

gridIn == <<start_radius, radius_step, end_radius, degree_resolution>>
gridOut == <<radius_steps, degree_steps>>
mapVars == <<array, x, y>>
interpIn == <<ri_radius, field_ndim, center_size, return_coordinates>>
interpVars == <<i, j, interp_lats, interp_lons, destCalls, sampleCalls, sampler_query, ret>>
vars == <<pc, err, gridIn, gridOut, interp_vals, mapVars, interpIn, interpVars>>

----------------------------------------------------------------------------
\* np.arange

CeilDiv(a, b) == (a + b - 1) \div b

\* Number of elements of np.arange(start, stop, step), step # 0:
\* ceil((stop - start) / step), and none when that is not positive.
ArangeLen(start, stop, step) ==
  IF step > 0
    THEN IF stop > start THEN CeilDiv(stop - start, step) ELSE 0
    ELSE IF stop < start THEN CeilDiv(start - stop, 0 - step) ELSE 0

Arange(start, stop, step) ==
  [k \in 1..ArangeLen(start, stop, step) |-> start + (k - 1) * step]

----------------------------------------------------------------------------
\* radial_grid

RadialGridPre(s, st, e, res) ==
  /\ s >= 0
  /\ st < e - s
  /\ 0 < res
  /\ res <= MaxDegreeResolution * Den

\* np.arange(start_radius, end_radius+1, radius_step)
RadiusSteps(s, st, e) == Arange(s, e + 1 * Den, st)

\* np.arange(0, 361, degree_resolution), or from degree_resolution on
DegreeSteps(s, res) ==
  IF s = 0
    THEN Arange(0, DegreeStop * Den, res)
    ELSE Arange(0 + res, DegreeStop * Den, res)

RadialGrid ==
  /\ pc = "start"
  /\ IF ~RadialGridPre(start_radius, radius_step, end_radius, degree_resolution)
       THEN /\ pc' = "grid_err"
            /\ err' = "AssertionError"
            /\ UNCHANGED gridOut
       ELSE IF radius_step = 0
         \* np.arange raises on a zero step
         THEN /\ pc' = "grid_err"
              /\ err' = "ZeroDivisionError"
              /\ UNCHANGED gridOut
         ELSE /\ pc' = "grid_done"
              /\ err' = ""
              /\ radius_steps' = RadiusSteps(start_radius, radius_step, end_radius)
              /\ degree_steps' = DegreeSteps(start_radius, degree_resolution)
  /\ UNCHANGED <<gridIn, interp_vals, mapVars, interpIn, interpVars>>

----------------------------------------------------------------------------
\* accum (ArrayAccumulator): a dense (max row + 1) x (max column + 1) array,
\* zero where nothing is written, the last write winning.

Max(S) == CHOOSE m \in S : \A n \in S : n <= m

RECURSIVE AccumWrite(_, _, _, _, _)
\* arr after the writes lo..hi, applied in order: array[row][column] = value.
\* The range is halved, and the first half evaluated before the second is begun.
AccumWrite(arr, subs, vals, lo, hi) ==
  IF lo > hi THEN arr
  ELSE IF lo = hi
    THEN [arr EXCEPT ![subs[lo][1] + 1][subs[lo][2] + 1] = vals[lo]]
    ELSE LET mid == (lo + hi) \div 2
             left == AccumWrite(arr, subs, vals, lo, mid)
         IN IF Len(left) >= 0
              THEN AccumWrite(left, subs, vals, mid + 1, hi)
              ELSE left

Accum(subs, vals) ==
  LET n == Len(subs)
      rows == Max({subs[k][1] : k \in 1..n}) + 1
      cols == Max({subs[k][2] : k \in 1..n}) + 1
      zero == [r \in 1..rows |-> [c \in 1..cols |-> 0]]
  IN AccumWrite(zero, subs, vals, 1, n)

----------------------------------------------------------------------------
\* create_mappable

\* .astype('int32') of a non-negative fixed-point value: truncation.
AsInt32(v) == IF v >= 0 THEN v \div Den ELSE 0 - ((0 - v) \div Den)

\* np.tile(s, n) and np.repeat(s, n)
Tile(s, n) == [k \in 1..(Len(s) * n) |-> s[((k - 1) % Len(s)) + 1]]
Repeat(s, n) == [k \in 1..(Len(s) * n) |-> s[((k - 1) \div n) + 1]]

\* xi: the azimuth VALUES as int32, tiled once per radius.
Xi(rs, ds) == LET t == Tile(ds, Len(rs)) IN [k \in DOMAIN t |-> AsInt32(t[k])]
\* yi: the radius INDICES 0..len-1, each repeated once per azimuth.
Yi(rs, ds) == Repeat([k \in 1..Len(rs) |-> k - 1], Len(ds))

\* subs = np.vstack([yi, xi]).T
Subs(rs, ds) ==
  LET yi == Yi(rs, ds)
      xi == Xi(rs, ds)
  IN [k \in 1..Len(yi) |-> <<yi[k], xi[k]>>]

\* rho = radius_steps / radius_steps[-1], kept as the fraction
Rho(rs) == [k \in 1..Len(rs) |-> <<rs[k], rs[Len(rs)]>>]
\* theta = np.deg2rad(degree_steps), kept as the angle it converts
Theta(ds) == [k \in 1..Len(ds) |-> [rad_of |-> ds[k]]]

\* np.meshgrid(theta, rho): both of shape (len(rho), len(theta))
MeshTh(theta, rho) == [r \in 1..Len(rho) |-> [c \in 1..Len(theta) |-> theta[c]]]
MeshRh(theta, rho) == [r \in 1..Len(rho) |-> [c \in 1..Len(theta) |-> rho[r]]]

\* pol2cart, elementwise, kept as the products it forms
Pol2CartX(th, rh) ==
  [r \in 1..Len(rh) |-> [c \in 1..Len(rh[r]) |-> [rho |-> rh[r][c], cos |-> th[r][c]]]]
Pol2CartY(th, rh) ==
  [r \in 1..Len(rh) |-> [c \in 1..Len(rh[r]) |-> [rho |-> rh[r][c], sin |-> th[r][c]]]]

Shape(m) == <<Len(m), IF Len(m) = 0 THEN 0 ELSE Len(m[1])>>

\* The samples create_mappable is given: one per grid point, the k-th tagged k.
SampleTags(rs, ds) == [k \in 1..(Len(rs) * Len(ds)) |-> k]

\* array = accum(subs, interp_vals)
MappableArray(rs, ds, vals) == Accum(Subs(rs, ds), vals)

\* (th, rh) = np.meshgrid(theta, rho); (x, y) = pol2cart(th, rh)
MappableX(rs, ds) ==
  LET rho == Rho(rs)
      theta == Theta(ds)
  IN Pol2CartX(MeshTh(theta, rho), MeshRh(theta, rho))
MappableY(rs, ds) ==
  LET rho == Rho(rs)
      theta == Theta(ds)
  IN Pol2CartY(MeshTh(theta, rho), MeshRh(theta, rho))

CreateMappable ==
  /\ pc = "grid_done"
  /\ \E ndim \in {1, 2} :
       IF ndim # 1
         THEN /\ pc' = "mappable_err"
              /\ err' = "AssertionError"
              /\ UNCHANGED <<interp_vals, mapVars>>
       ELSE IF Len(radius_steps) = 0
         THEN /\ pc' = "mappable_err"
              /\ err' = "IndexError"
              /\ UNCHANGED <<interp_vals, mapVars>>
       ELSE IF radius_steps[1] # 0
         THEN /\ pc' = "mappable_err"
              /\ err' = "AssertionError"
              /\ UNCHANGED <<interp_vals, mapVars>>
       ELSE /\ interp_vals' = SampleTags(radius_steps, degree_steps)
            /\ array' = MappableArray(radius_steps, degree_steps,
                                       SampleTags(radius_steps, degree_steps))
            /\ x' = MappableX(radius_steps, degree_steps)
            /\ y' = MappableY(radius_steps, degree_steps)
            /\ pc' = "mappable_done"
            /\ err' = ""
  /\ UNCHANGED <<gridIn, gridOut, interpIn, interpVars>>

----------------------------------------------------------------------------
\* radial_interp

\* The centre coordinate the caller passes.
CenterLat == <<"lat", 0, 0>>
CenterLon == <<"lon", 0, 0>>

\* gd.distance(kilometers = km).destination(point = start, bearing = deg): the
\* point km away along bearing deg.  No distance leaves the centre where it is,
\* and a bearing of 360 is the bearing 0.
Destination(km, deg) ==
  IF km = 0
    THEN <<CenterLat, CenterLon>>
    ELSE <<(<<"lat", km, deg % (360 * Den)>>), (<<"lon", km, deg % (360 * Den)>>)>>

\* The value of the field a at one (lon, lat).
FieldAt(lon, lat) == lat[2] * 1000 + lon[3] + 1

\* si.interpn at one query point: a scalar for a 2D field, one value per time
\* slice for a 3D field (two slices here), and so on for each further axis.
RECURSIVE SampleValue(_, _, _)
SampleValue(ndim, lon, lat) ==
  IF ndim <= 2
    THEN FieldAt(lon, lat)
    ELSE [t \in 1..2 |-> SampleValue(ndim - 1, lon, lat)]

\* si.interpn((a_lons, a_lats), a, (interp_lons, interp_lats)): one value per
\* query pair, in the order of the query.
Interpn(ndim, lons, lats) == [k \in 1..Len(lons) |-> SampleValue(ndim, lons[k], lats[k])]

\* np.hstack([center, interp]) and the slips it is checked against
HstackNothing(c, l) == l
HstackOriginLast(c, l) == l \o <<c>>
HstackOrigin(c, l) == <<c>> \o l

\* The radius list a caller passes: radial_grid's, or that list moved down 1 km.
MovedDown(rs) == [k \in DOMAIN rs |-> rs[k] - 1 * Den]

InterpStarted == pc \in {"interp_loop", "interp_loop_done", "interp_sample",
                         "interp_done", "interp_err"}

\* The call, up to the assert on radius_steps[0].
InterpCall ==
  /\ pc = "grid_done"
  /\ \E nd \in 1..4, cs \in {1, 2}, rc \in BOOLEAN, moved \in BOOLEAN :
       LET rs == IF moved THEN MovedDown(radius_steps) ELSE radius_steps
       IN /\ ri_radius' = rs
          /\ field_ndim' = nd
          /\ center_size' = cs
          /\ return_coordinates' = rc
          /\ IF Len(rs) = 0
               THEN /\ pc' = "interp_err"
                    /\ err' = "IndexError"
                    /\ UNCHANGED <<i, j>>
             ELSE IF ~(rs[1] >= 0)
               THEN /\ pc' = "interp_err"
                    /\ err' = "AssertionError"
                    /\ UNCHANGED <<i, j>>
               ELSE /\ pc' = "interp_loop"
                    /\ err' = ""
                    /\ i' = 1
                    /\ j' = 1
  /\ interp_lats' = <<>>
  /\ interp_lons' = <<>>
  /\ UNCHANGED <<gridIn, gridOut, interp_vals, mapVars, destCalls, sampleCalls,
                 sampler_query, ret>>

\* One pass of the body of "for km in radius_steps: for deg in degree_steps".
InterpPoint ==
  /\ pc = "interp_loop"
  /\ IF center_size # 1
       \* geopy.Point(center_lat, center_lon) takes one number for each
       THEN /\ pc' = "interp_err"
            /\ err' = "PointError"
            /\ UNCHANGED <<i, j, interp_lats, interp_lons, destCalls>>
       ELSE LET dest == Destination(ri_radius[i], degree_steps[j])
            IN /\ destCalls' = destCalls + 1
               /\ interp_lats' = Append(interp_lats, dest[1])
               /\ interp_lons' = Append(interp_lons, dest[2])
               /\ err' = err
               /\ IF j < Len(degree_steps)
                    THEN /\ j' = j + 1
                         /\ UNCHANGED <<i, pc>>
                  ELSE IF i < Len(ri_radius)
                    THEN /\ i' = i + 1
                         /\ j' = 1
                         /\ pc' = pc
                    ELSE /\ pc' = "interp_loop_done"
                         /\ UNCHANGED <<i, j>>
  /\ UNCHANGED <<gridIn, gridOut, interp_vals, mapVars, interpIn, sampleCalls,
                 sampler_query, ret>>

\* After the loops: the origin is added in front when radius_steps[0] # 0.
InterpPrependOrigin ==
  /\ pc = "interp_loop_done"
  /\ IF ri_radius[1] = 0
       THEN UNCHANGED <<interp_lats, interp_lons>>
       ELSE /\ interp_lats' = HstackOrigin(CenterLat, interp_lats)
            /\ interp_lons' = HstackOrigin(CenterLon, interp_lons)
  /\ pc' = "interp_sample"
  /\ UNCHANGED <<err, gridIn, gridOut, interp_vals, mapVars, interpIn, i, j,
                 destCalls, sampleCalls, sampler_query, ret>>

\* interp_vals = si.interpn(...) and the return.
InterpSample ==
  /\ pc = "interp_sample"
  /\ sampleCalls' = sampleCalls + 1
  /\ sampler_query' = <<interp_lons, interp_lats>>
  /\ IF field_ndim < 2
       \* interpn: "There are 2 point arrays, but values has 1 dimensions"
       THEN /\ pc' = "interp_err"
            /\ err' = "ValueError"
            /\ UNCHANGED <<interp_vals, ret>>
       ELSE /\ interp_vals' = Interpn(field_ndim, interp_lons, interp_lats)
            /\ ret' = IF return_coordinates
                        THEN <<Interpn(field_ndim, interp_lons, interp_lats),
                               interp_lats, interp_lons>>
                        ELSE <<Interpn(field_ndim, interp_lons, interp_lats)>>
            /\ pc' = "interp_done"
            /\ err' = ""
  /\ UNCHANGED <<gridIn, gridOut, mapVars, interpIn, i, j, interp_lats, interp_lons,
                 destCalls>>

----------------------------------------------------------------------------

InitRest ==
  /\ pc = "start"
  /\ err = ""
  /\ radius_steps = <<>>
  /\ degree_steps = <<>>
  /\ interp_vals = <<>>
  /\ array = <<>>
  /\ x = <<>>
  /\ y = <<>>
  /\ ri_radius = <<>>
  /\ field_ndim = 0
  /\ center_size = 0
  /\ return_coordinates = FALSE
  /\ i = 0
  /\ j = 0
  /\ interp_lats = <<>>
  /\ interp_lons = <<>>
  /\ destCalls = 0
  /\ sampleCalls = 0
  /\ sampler_query = <<>>
  /\ ret = <<>>

Init ==
  /\ start_radius \in StartRadii
  /\ radius_step \in RadiusStepsIn
  /\ end_radius \in EndRadii
  /\ degree_resolution \in DegreeResolutions
  /\ InitRest

Next == RadialGrid \/ CreateMappable

Spec == Init /\ [][Next]_vars

\* The grids radial_interp is stepped through, point by point.
InitInterp ==
  /\ start_radius \in StartRadii
  /\ radius_step \in RadiusStepsIn
  /\ end_radius \in EndRadii
  /\ degree_resolution \in CoarseResolutions
  /\ InitRest

NextInterp ==
  \/ RadialGrid
  \/ InterpCall
  \/ InterpPoint
  \/ InterpPrependOrigin
  \/ InterpSample

SpecInterp == InitInterp /\ [][NextInterp]_vars

----------------------------------------------------------------------------
\* The claims

Contains(seq, v) == \E k \in DOMAIN seq : seq[k] = v
Count(seq, v) == Cardinality({k \in DOMAIN seq : seq[k] = v})

\* radial_grid has returned its pair (and the pair is still what it returned).
GridReturned == pc \in {"grid_done", "mappable_done", "mappable_err"}

\* C1: with start_radius = 0, the degree_steps radial_grid returns contain both
\* 0 and 360 and have exactly 360/degree_resolution + 1 elements.
C1_ZeroStartAzimuthsClosed ==
  (GridReturned /\ start_radius = 0) =>
    /\ Contains(degree_steps, 0)
    /\ Contains(degree_steps, 360 * Den)
    /\ Len(degree_steps) * degree_resolution = 360 * Den + degree_resolution

\* C2: array, x and y of create_mappable all have the shape
\* (len(radius_steps), len(degree_steps)).
C2_MappableShapes ==
  pc = "mappable_done" =>
    /\ Shape(array) = <<Len(radius_steps), Len(degree_steps)>>
    /\ Shape(x) = <<Len(radius_steps), Len(degree_steps)>>
    /\ Shape(y) = <<Len(radius_steps), Len(degree_steps)>>

\* C3: the radius_steps radial_grid returns start at start_radius and end in
\* [end_radius - radius_step, end_radius].
C3_RadiusStepsSpan ==
  GridReturned =>
    /\ Len(radius_steps) > 0
    /\ radius_steps[1] = start_radius
    /\ radius_steps[Len(radius_steps)] >= end_radius - radius_step
    /\ radius_steps[Len(radius_steps)] <= end_radius

\* C5: with start_radius > 0, the degree_steps radial_grid returns do not
\* contain 0 and contain 360 exactly once.
C5_PositiveStartAzimuths ==
  (GridReturned /\ start_radius > 0) =>
    /\ ~Contains(degree_steps, 0)
    /\ Count(degree_steps, 360 * Den) = 1

\* C7: radial_grid fails with its precondition error exactly when one of its
\* three preconditions is violated, and otherwise returns and raises nothing.
C7_GridFailsExactlyOnPrecondition ==
  LET pre == RadialGridPre(start_radius, radius_step, end_radius, degree_resolution)
  IN /\ pc = "grid_err" => (err = "AssertionError" /\ ~pre)
     /\ GridReturned => pre
     /\ (pc # "start" /\ pre) => pc # "grid_err"

\* C9: the array create_mappable accumulates is the reshape of interp_vals:
\* array[i][j] = interp_vals[i * len(degree_steps) + j] (0-based).
C9_AccumulationIsReshape ==
  pc = "mappable_done" =>
    \A r \in 1..Len(radius_steps), c \in 1..Len(degree_steps) :
      /\ r \in DOMAIN array
      /\ c \in DOMAIN array[r]
      /\ array[r][c] = interp_vals[(r - 1) * Len(degree_steps) + c]

\* C10: the (row, column) index pairs create_mappable builds on a grid with
\* start_radius = 0 are pairwise distinct.
C10_IndexPairsDistinct ==
  (pc = "mappable_done" /\ start_radius = 0) =>
    LET subs == Subs(radius_steps, degree_steps)
    IN Cardinality({subs[k] : k \in DOMAIN subs}) = Len(subs)

\* The number of points radial_interp is to assemble.
PointsExpected ==
  Len(ri_radius) * Len(degree_steps) + (IF ri_radius[1] = 0 THEN 0 ELSE 1)

\* C4: the field sampler is handed len(radius_steps) * len(degree_steps) points
\* when radius_steps[0] = 0, and one more when radius_steps[0] > 0.
C4_PointCount ==
  sampleCalls > 0 =>
    /\ Len(sampler_query[1]) = PointsExpected
    /\ Len(sampler_query[2]) = PointsExpected

C4_Witness ==
  /\ pc = "interp_done"
  /\ ri_radius[1] > 0
  /\ Len(ri_radius) >= 2
  /\ Len(sampler_query[1]) = Len(ri_radius) * Len(degree_steps) + 1

\* The invalid inputs of radial_interp.
InterpInvalid ==
  \/ field_ndim \notin {2, 3}
  \/ center_size # 1
  \/ (Len(ri_radius) > 0 /\ ri_radius[1] < 0)

\* C6: on an input that violates a precondition radial_interp fails before
\* any call of the geodesic destination or of the field sampler.
C6_InvalidInputNoExternalCall ==
  (InterpStarted /\ InterpInvalid) =>
    /\ destCalls = 0
    /\ sampleCalls = 0
    /\ pc # "interp_done"

\* C8: the points are in radius-major order, after the centre when
\* radius_steps[0] > 0: the point of radius index r and azimuth index c is at
\* position off + r * len(degree_steps) + c (0-based), and interp_vals and the
\* returned coordinates have the same positions.
C8_RadiusMajorOrder ==
  pc = "interp_done" =>
    LET nd == Len(degree_steps)
        off == IF ri_radius[1] = 0 THEN 0 ELSE 1
    IN /\ \A r \in 1..Len(ri_radius), c \in 1..nd :
            LET p == off + (r - 1) * nd + c
                dest == Destination(ri_radius[r], degree_steps[c])
            IN /\ interp_lats[p] = dest[1]
               /\ interp_lons[p] = dest[2]
               /\ interp_vals[p] = SampleValue(field_ndim, dest[2], dest[1])
       /\ off = 1 =>
            /\ interp_lats[1] = CenterLat
            /\ interp_lons[1] = CenterLon
            /\ interp_vals[1] = SampleValue(field_ndim, CenterLon, CenterLat)
       /\ ret[1] = interp_vals
       /\ return_coordinates => (Len(ret) = 3 /\ ret[2] = interp_lats /\ ret[3] = interp_lons)
       /\ ~return_coordinates => Len(ret) = 1

C8_Witness ==
  /\ pc = "interp_done"
  /\ ri_radius[1] > 0
  /\ return_coordinates
  /\ Len(ri_radius) >= 2
  /\ Len(degree_steps) >= 4
  /\ interp_lats[1] = CenterLat
  /\ interp_lats[2 + Len(degree_steps)] = Destination(ri_radius[2], degree_steps[1])[1]

====
